---- MODULE Spec2Model ----
(***************************************************************************)
(* The rules engine of src/xs.js: the xstate machine GameMachine together  *)
(* with the Rand, Player, Game and GameDef helpers it is built from.       *)
(* One TLA+ action per event type models one call of                       *)
(* GameMachine.transition(state, event), eager (always) transitions        *)
(* included.                                                               *)
(***************************************************************************)
EXTENDS Integers, Sequences, FiniteSets, TLC

\* ------------------------------------------------------------------ bounds
\* Number of ACTION events accepted in one game of the model.
MaxTurns == 1

\* Longest list handed to Rand.shuffle, and the number of calls of Rand made
\* in a row, where Rand is exercised on its own.
MaxLen == 3
MaxDraws == 2

\* ------------------------------------------------------- null placeholders
\* null / undefined for fields that hold a player index
NullIdx == -1
\* null / undefined for fields that hold a string
NullStr == "null"
\* what a helper that throws (raiseError) yields
Error == [error |-> TRUE]

\* ---------------------------------------------------------------- Rand
\* A 32 bit word is the pair <<high 16 bits, low 16 bits>>.
HALF == 65536

\* the bit of weight p (a power of 2) of a ^ b
XorBit(a, b, p) == p * (((a \div p) + (b \div p)) % 2)

\* a ^ b on 16 bit halves
XorBits(a, b) ==
  ((XorBit(a, b, 1) + XorBit(a, b, 2)) + (XorBit(a, b, 4) + XorBit(a, b, 8))
   + ((XorBit(a, b, 16) + XorBit(a, b, 32))
      + (XorBit(a, b, 64) + XorBit(a, b, 128))))
  + (((XorBit(a, b, 256) + XorBit(a, b, 512))
      + (XorBit(a, b, 1024) + XorBit(a, b, 2048)))
     + ((XorBit(a, b, 4096) + XorBit(a, b, 8192))
        + (XorBit(a, b, 16384) + XorBit(a, b, 32768))))

XorW(x, y) == <<XorBits(x[1], y[1]), XorBits(x[2], y[2])>>

\* x << 11, x >>> 8 and x >>> 19 on 32 bit words
Shl11(x) == <<((x[1] * 2048) + (x[2] \div 32)) % HALF, (x[2] * 2048) % HALF>>
Shr8(x) == <<x[1] \div 256, (x[2] \div 256) + ((x[1] % 256) * 256)>>
Shr19(x) == <<0, x[1] \div 8>>

\* pureRandom.randUint: one xorshift128 step on the seed [x, y, z, w]
\* t ^= x << 11; t ^= t >>> 8; w ^= w >>> 19
XorShl11(x) == XorW(x, Shl11(x))
XorShr8(t) == XorW(t, Shr8(t))
XorShr19(w) == XorW(w, Shr19(w))

randUint(seed) == XorW(XorShr19(seed[4]), XorShr8(XorShl11(seed[1])))

\* Rand._nextSeed: R.append(randUint(seed), R.slice(1, 4, seed))
nextSeed(seed) == <<seed[2], seed[3], seed[4], randUint(seed)>>

\* Rand._random: Math.round(min + randUint(seed) / UINT32_MAX * (max - min)).
\* With u * k = q * 2^32 + r the quotient u * k / (2^32 - 1) is
\* q + (q + r) / (2^32 - 1), which rounds up exactly when q + r >= 2^31.
round(u, min, max) ==
  LET k  == max - min
      b  == u[2] * k
      a  == (u[1] * k) + (b \div HALF)
      q  == a \div HALF
      rh == a % HALF
      rl == b % HALF
      up == IF rh + ((rl + q) \div HALF) >= (HALF \div 2) THEN 1 ELSE 0
  IN min + q + up

random(seed, min, max) == round(randUint(seed), min, max)

\* R.remove(i, 1, list) with a 0-based index i
removeAt(i, list) ==
  [j \in 1..(Len(list) - 1) |-> IF j <= i THEN list[j] ELSE list[j + 1]]

\* Rand.shuffle in the State monad: the pair <<shuffled list, seed after>>.
\* The recursion of the source (draw i, put list[i] in front of the shuffle
\* of the rest under the next seed) is carried by st = <<the elements drawn
\* so far, the list left, the seed>>.
\* mutant of draw: the first element is put in front whatever index was
\* drawn
draw_takesFirst(i, st) ==
  <<Append(st[1], st[2][1]), removeAt(i, st[2]), nextSeed(st[3])>>

draw(i, st) == <<Append(st[1], st[2][i + 1]), removeAt(i, st[2]), nextSeed(st[3])>>

RECURSIVE shuffleRest(_)
shuffleRest(st) ==
  IF Len(st[2]) <= 1 THEN <<st[1] \o st[2], st[3]>>
  ELSE shuffleRest(draw(random(st[3], 0, Len(st[2]) - 1), st))

shuffle(list, seed) == shuffleRest(<<(<<>>), list, seed>>)

\* ---------------------------------------------------------------- Player
\* A player is [cash, influence], influence a sequence of [role, revealed].
RECURSIVE countWhere(_, _, _)
countWhere(influence, revealed, n) ==
  IF n = 0 THEN 0
  ELSE countWhere(influence, revealed, n - 1)
       + (IF influence[n].revealed = revealed THEN 1 ELSE 0)

countInf(player) == countWhere(player.influence, FALSE, Len(player.influence))

hasNInf(n, player) == countInf(player) = n

isDead(player) == hasNInf(0, player)

adjustCash(dcash, player) == [player EXCEPT !.cash = @ + dcash]

\* R.findIndex(R.equals({role, revealed}), influence): 1-based, 0 when absent
findIndex(role, revealed, influence) ==
  LET hits == {i \in 1..Len(influence) :
                 influence[i] = [role |-> role, revealed |-> revealed]}
  IN IF hits = {} THEN 0 ELSE CHOOSE i \in hits : \A j \in hits : i <= j

revealRole(role, player) ==
  LET idx == findIndex(role, FALSE, player.influence)
  IN IF idx = 0 THEN Error
     ELSE [player EXCEPT !.influence[idx].revealed = TRUE]

\* mutant of unrevealRole: every card of the player is turned face down
unrevealRole_all(role, player) ==
  LET idx == findIndex(role, TRUE, player.influence)
  IN IF idx = 0 THEN Error
     ELSE [player EXCEPT !.influence =
             [k \in 1..Len(player.influence) |->
                [player.influence[k] EXCEPT !.revealed = FALSE]]]

unrevealRole(role, player) ==
  LET idx == findIndex(role, TRUE, player.influence)
  IN IF idx = 0 THEN Error
     ELSE [player EXCEPT !.influence[idx].revealed = FALSE]

swapRole_s(oldRole, newRole, player) ==
  LET idx == findIndex(oldRole, FALSE, player.influence)
  IN IF idx = 0 THEN Error
     ELSE [player EXCEPT !.influence[idx].role = newRole]

\* the role of the first unrevealed card, NullStr when there is none
getFirstRole(player) ==
  LET open == {i \in 1..Len(player.influence) :
                 ~player.influence[i].revealed}
  IN IF open = {} THEN NullStr
     ELSE player.influence[CHOOSE i \in open : \A j \in open : i <= j].role

\* --------------------------------------------------------------- GameDef
ActionNames ==
  {"coup", "income", "foreign-aid", "tax", "assassinate", "steal",
   "exchange", "interrogate"}

DefaultRoles == <<"duke", "assassin", "captain", "ambassador", "contessa">>

isValidRole(def, role) == \E i \in 1..Len(def) : def[i] = role

\* names every JavaScript object inherits from Object.prototype (some of them)
InheritedNames ==
  {"constructor", "toString", "valueOf", "hasOwnProperty", "__proto__"}

\* action in this.actions: the in operator also finds inherited properties
isValidAction(action) == action \in (ActionNames \cup InheritedNames)

getRequiredRoles(action) ==
  CASE action = "tax" -> {"duke"}
    [] action = "assassinate" -> {"assassin"}
    [] action = "steal" -> {"captain"}
    [] action = "exchange" -> {"ambassador", "inquisitor"}
    [] action = "interrogate" -> {"inquisitor"}
    [] OTHER -> {}

getBlockingRoles(action) ==
  CASE action = "foreign-aid" -> {"duke"}
    [] action = "assassinate" -> {"contessa"}
    [] action = "steal" -> {"captain", "ambassador", "inquisitor"}
    [] OTHER -> {}

isRoleRequired(action) == getRequiredRoles(action) # {}

isBlockable(action) == getBlockingRoles(action) # {}

isBlockedBy(action, role) == role \in getBlockingRoles(action)

ifRoleAllowsAction(role, action) == role \in getRequiredRoles(action)

isTargeted(action) == action \in {"coup", "assassinate", "steal", "interrogate"}

\* the gain field of the action
gain(action) ==
  CASE action = "income" -> 1
    [] action = "foreign-aid" -> 2
    [] action = "tax" -> 3
    [] OTHER -> 0

getCost(action) ==
  CASE action = "coup" -> 7
    [] action = "assassinate" -> 3
    [] OTHER -> 0

\* R.flatten(this.roles.map(el => R.repeat(el, 3)))
RECURSIVE makeDeck(_)
makeDeck(def) ==
  IF def = <<>> THEN <<>>
  ELSE <<def[1], def[1], def[1]>> \o makeDeck(Tail(def))

\* ------------------------------------------------------------------ Game
\* The context is the record [def, seed, deck, whoseTurn, players,
\* currentAction, target, blocker, challenger, revealer, revealedRole];
\* player indices are 0-based as in the source.

\* R.view(Player.lens(idx), context)
viewPlayer(idx, context) == context.players[idx + 1]

\* R.set(Player.lens(idx), player, context)
setPlayer(idx, player, context) == [context EXCEPT !.players[idx + 1] = player]

\* mutant of isOver: "at least one" instead of "exactly one" living player
isOver_atLeastOne(context) ==
  Cardinality({i \in 1..Len(context.players) : ~isDead(context.players[i])}) >= 1

isOver(context) ==
  Cardinality({i \in 1..Len(context.players) : ~isDead(context.players[i])}) = 1

\* mutant of pushDeck_s: the role is not put on the deck
pushDeck_s_dropsRole(role, context) == context

pushDeck_s(role, context) == [context EXCEPT !.deck = <<role>> \o @]

\* mutant of popDeck_s: the top card is read but stays on the deck
popDeck_s_keepsTop(context) ==
  IF context.deck = <<>> THEN <<NullStr, context>>
  ELSE <<context.deck[1], context>>

\* the pair <<deck[0], context without deck[0]>>
popDeck_s(context) ==
  IF context.deck = <<>> THEN <<NullStr, context>>
  ELSE <<context.deck[1], [context EXCEPT !.deck = Tail(@)]>>

\* State.put of the shuffled deck and the seed the shuffle ended with
putDeck(r, context) == [context EXCEPT !.deck = r[1], !.seed = r[2]]

shuffleDeck_s(context) == putDeck(shuffle(context.deck, context.seed), context)

\* mutant of playerCanAffordAction: the cash is compared with 0, not the cost
playerCanAffordAction_unchecked(idx, action, context) ==
  0 <= viewPlayer(idx, context).cash

playerCanAffordAction(idx, action, context) ==
  getCost(action) <= viewPlayer(idx, context).cash

playerHasNInf(idx, n, context) == hasNInf(n, viewPlayer(idx, context))

playerHasRole(idx, role, context) ==
  \E i \in 1..Len(viewPlayer(idx, context).influence) :
    /\ viewPlayer(idx, context).influence[i].revealed = FALSE
    /\ viewPlayer(idx, context).influence[i].role = role

\* mutant of applyRevealAction: the assassin, not the target, is to reveal
applyRevealAction_revealsActor(context) ==
  [context EXCEPT !.revealer = context.whoseTurn]

applyRevealAction(context) == [context EXCEPT !.revealer = context.target]

\* Game.applyAction = R.cond([...]): no clause matches the other actions
applyAction(context) ==
  LET active == viewPlayer(context.whoseTurn, context)
  IN CASE context.currentAction = "income" ->
            setPlayer(context.whoseTurn, adjustCash(1, active), context)
       [] context.currentAction = "foreign-aid" ->
            setPlayer(context.whoseTurn, adjustCash(2, active), context)
       [] context.currentAction = "tax" ->
            setPlayer(context.whoseTurn, adjustCash(3, active), context)
       [] context.currentAction = "assassinate" -> applyRevealAction(context)
       [] OTHER -> context

\* the last step of redealPlayerRole: the popped role replaces oldRole
\* mutant of redealPlayerRole: the new role is popped before the proven
\* role is put back and the deck shuffled
redealPlayerRole_popsFirst(idx, oldRole, context) ==
  [shuffleDeck_s(pushDeck_s(oldRole, popDeck_s(context)[2]))
     EXCEPT !.players[idx + 1] =
       swapRole_s(oldRole, popDeck_s(context)[1], viewPlayer(idx, context))]

swapPopped(idx, oldRole, popped) ==
  LET player == swapRole_s(oldRole, popped[1], viewPlayer(idx, popped[2]))
  IN IF player = Error THEN Error ELSE setPlayer(idx, player, popped[2])

redealPlayerRole(idx, oldRole, context) ==
  swapPopped(idx, oldRole, popDeck_s(shuffleDeck_s(pushDeck_s(oldRole, context))))

\* ---------------------------------------------------------------- guards
\* An assert* guard is TRUE when it returns true and FALSE when it throws.
isValidPlayerIdx(context, idx) == idx >= 0 /\ idx < Len(context.players)

assertValidPlayer(context, event) == isValidPlayerIdx(context, event.player)

assertCanStartAction(context, event) ==
  /\ assertValidPlayer(context, event)
  /\ isValidAction(event.action)
  /\ event.player = context.whoseTurn
  /\ isTargeted(event.action) =>
       /\ isValidPlayerIdx(context, event.target)
       /\ event.target # context.whoseTurn
  /\ playerCanAffordAction(event.player, event.action, context)

\* mutant of assertCanReveal: any player may reveal a card it holds
assertCanReveal_anyPlayer(context, event) ==
  /\ assertValidPlayer(context, event)
  /\ isValidRole(context.def, event.role)
  /\ playerHasRole(event.player, event.role, context)

assertCanReveal(context, event) ==
  /\ assertValidPlayer(context, event)
  /\ event.player = context.revealer
  /\ isValidRole(context.def, event.role)
  /\ playerHasRole(event.player, event.role, context)

assertValidOpponent(context, event) ==
  /\ assertValidPlayer(context, event)
  /\ event.player # context.whoseTurn

assertCurrentPlayer(context, event) ==
  /\ assertValidPlayer(context, event)
  /\ event.player = context.whoseTurn

ifActionWasBlocked(context) == context.blocker # NullIdx

\* mutant of assertCanChallenge: a block is challenged under the rule for
\* an action
assertCanChallenge_asAction(context, event) ==
  /\ assertValidOpponent(context, event)
  /\ isRoleRequired(context.currentAction)

assertCanChallenge(context, event) ==
  IF ifActionWasBlocked(context)
  THEN /\ assertValidPlayer(context, event)
       /\ event.player # context.blocker
  ELSE /\ assertValidOpponent(context, event)
       /\ isRoleRequired(context.currentAction)

\* mutant of assertCanBlock: any role blocks
assertCanBlock_anyRole(context, event) ==
  /\ assertValidOpponent(context, event)
  /\ event.role # NullStr

assertCanBlock(context, event) ==
  /\ assertValidOpponent(context, event)
  /\ event.role # NullStr
  /\ isBlockedBy(context.currentAction, event.role)

ifActionHasResponse(context) ==
  isRoleRequired(context.currentAction) \/ isBlockable(context.currentAction)

ifActionHasNoResponse(context) == ~ifActionHasResponse(context)

\* mutant of ifChallengeIncorrect: only a blocker can prove its claim
ifChallengeIncorrect_blockOnly(context) ==
  IF context.blocker # NullIdx
  THEN isBlockedBy(context.currentAction, context.revealedRole)
  ELSE FALSE

ifChallengeIncorrect(context) ==
  IF context.blocker # NullIdx
  THEN isBlockedBy(context.currentAction, context.revealedRole)
  ELSE ifRoleAllowsAction(context.revealedRole, context.currentAction)

ifPendingReveal(context) ==
  context.revealer # NullIdx /\ context.revealedRole = NullStr

ifBlockableAction(context) == isBlockable(context.currentAction)

ifAutoReveal(context) == playerHasNInf(context.revealer, 1, context)

\* --------------------------------------------------------------- assigns
setCurrentAction(context, event) ==
  [context EXCEPT !.currentAction = event.action, !.target = event.target]

\* mutant of setChallenger: the sender of the CHALLENGE is not recorded
setChallenger_forgets(context, event) == context

setChallenger(context, event) == [context EXCEPT !.challenger = event.player]

setBlocker(context, event) == [context EXCEPT !.blocker = event.player]

\* setRevealer(valueGetter), given the value the getter returns
setRevealer(idx, context) ==
  [context EXCEPT !.revealer = idx, !.revealedRole = NullStr]

clearRevealer(context) ==
  [context EXCEPT !.revealer = NullIdx, !.revealedRole = NullStr]

\* mutant of advanceTurn: the turn skips a player
advanceTurn_skipsOne(context) ==
  [context EXCEPT !.whoseTurn = (context.whoseTurn + 2) % Len(context.players)]

advanceTurn(context) ==
  [context EXCEPT !.whoseTurn = (context.whoseTurn + 1) % Len(context.players)]

\* mutant of revealInfluence: the deck is shuffled whenever a card is revealed
revealInfluence_reshuffles(context, event) ==
  LET role   == IF event.role # NullStr THEN event.role
                ELSE getFirstRole(viewPlayer(context.revealer, context))
      player == revealRole(role, viewPlayer(context.revealer, context))
  IN IF player = Error THEN Error
     ELSE shuffleDeck_s([setPlayer(context.revealer, player, context)
                           EXCEPT !.revealedRole = role])

\* event.role || the only role of the revealer
revealInfluence(context, event) ==
  LET role   == IF event.role # NullStr THEN event.role
                ELSE getFirstRole(viewPlayer(context.revealer, context))
      player == revealRole(role, viewPlayer(context.revealer, context))
  IN IF player = Error THEN Error
     ELSE [setPlayer(context.revealer, player, context)
             EXCEPT !.revealedRole = role]

\* mutant of replaceInfluence: the proof is not turned face down before the
\* redeal
replaceInfluence_keepsRevealed(context) ==
  redealPlayerRole(context.revealer, context.revealedRole, context)

replaceInfluence(context) ==
  LET player == unrevealRole(context.revealedRole,
                             viewPlayer(context.revealer, context))
  IN IF player = Error THEN Error
     ELSE redealPlayerRole(context.revealer, context.revealedRole,
                           setPlayer(context.revealer, player, context))

\* mutant of payActionCost: the target of the action pays when there is one
payActionCost_chargesTarget(context) ==
  LET payer == IF context.target # NullIdx THEN context.target
               ELSE context.whoseTurn
  IN setPlayer(payer,
               adjustCash(-getCost(context.currentAction),
                          viewPlayer(payer, context)),
               context)

payActionCost(context) ==
  setPlayer(context.whoseTurn,
            adjustCash(-getCost(context.currentAction),
                       viewPlayer(context.whoseTurn, context)),
            context)

\* mutant of resetContext: target is left as the turn set it
resetContext_keepsTarget(context) ==
  [context EXCEPT !.currentAction = NullStr,
                  !.blocker = NullIdx, !.challenger = NullIdx,
                  !.revealer = NullIdx, !.revealedRole = NullStr]

resetContext(context) ==
  [context EXCEPT !.currentAction = NullStr, !.target = NullIdx,
                  !.blocker = NullIdx, !.challenger = NullIdx,
                  !.revealer = NullIdx, !.revealedRole = NullStr]

\* ----------------------------------------------------------- GameMachine
RestStates ==
  {"StartOfTurn", "WaitForResponse", "Block", "Challenge",
   "ChallengeIncorrect", "WaitForBlock", "RevealOnAction", "GameOver"}

TransientStates ==
  {"ExecRevealOnChallenge", "ExecCounterReveal", "FinishAction", "EndOfTurn"}

EventTypes == {"ACTION", "BLOCK", "CHALLENGE", "ALLOW", "REVEAL"}

\* the event of an eventless (always) transition: {type: ''}
nullEvent ==
  [type |-> "", player |-> NullIdx, action |-> NullStr, target |-> NullIdx,
   role |-> NullStr]

\* a transition {target, cond, actions}
Edge(target, guard, actions) ==
  [target |-> target, cond |-> guard, actions |-> actions]

\* no transition is selected
NoEdge == Edge(NullStr, NullStr, <<>>)

\* states.<name>.on by event type, states.<name>.always by context (the
\* first transition of the list whose cond holds)
StartOfTurn_on(type) ==
  IF type = "ACTION" THEN Edge("WaitForResponse", "assertCanStartAction", <<>>)
  ELSE NoEdge

\* mutant of WaitForResponse_always: the machine waits for a response to
\* every action
WaitForResponse_always_waits(context) == NoEdge

WaitForResponse_always(context) ==
  IF ifActionHasNoResponse(context)
  THEN Edge("FinishAction", "ifActionHasNoResponse", <<>>)
  ELSE NoEdge

\* mutant of WaitForResponse_on: ALLOW does not charge the action's cost
WaitForResponse_on_allowFree(type) ==
  CASE type = "BLOCK" -> Edge("Block", "assertCanBlock", <<"payActionCost">>)
    [] type = "CHALLENGE" -> Edge("Challenge", "assertCanChallenge", <<>>)
    [] type = "ALLOW" -> Edge("FinishAction", "assertValidOpponent", <<>>)
    [] OTHER -> NoEdge

WaitForResponse_on(type) ==
  CASE type = "BLOCK" -> Edge("Block", "assertCanBlock", <<"payActionCost">>)
    [] type = "CHALLENGE" -> Edge("Challenge", "assertCanChallenge", <<>>)
    [] type = "ALLOW" ->
         Edge("FinishAction", "assertValidOpponent", <<"payActionCost">>)
    [] OTHER -> NoEdge

\* mutant of Block_on: an allowed block does not stop the action
Block_on_allowApplies(type) ==
  CASE type = "CHALLENGE" -> Edge("Challenge", "assertCanChallenge", <<>>)
    [] type = "ALLOW" -> Edge("FinishAction", "assertCurrentPlayer", <<>>)
    [] OTHER -> NoEdge

Block_on(type) ==
  CASE type = "CHALLENGE" -> Edge("Challenge", "assertCanChallenge", <<>>)
    [] type = "ALLOW" -> Edge("EndOfTurn", "assertCurrentPlayer", <<>>)
    [] OTHER -> NoEdge

\* mutant of Challenge_always: Challenge waits for a REVEAL whatever the
\* revealer holds
Challenge_always_waits(context) == NoEdge

Challenge_always(context) ==
  IF ifAutoReveal(context)
  THEN Edge("ExecRevealOnChallenge", "ifAutoReveal", <<>>)
  ELSE NoEdge

Challenge_on(type) ==
  IF type = "REVEAL"
  THEN Edge("ExecRevealOnChallenge", "assertCanReveal", <<>>)
  ELSE NoEdge

\* mutant of ExecRevealOnChallenge_always: a correctly challenged action is
\* carried out all the same
ExecRevealOnChallenge_always_appliesAnyway(context) ==
  IF ifChallengeIncorrect(context)
  THEN Edge("ChallengeIncorrect", "ifChallengeIncorrect", <<>>)
  ELSE Edge("FinishAction", NullStr, <<>>)

\* mutant of ExecRevealOnChallenge_always: a block stands although its
\* blocker failed to prove it
ExecRevealOnChallenge_always_blockStands(context) ==
  IF ifChallengeIncorrect(context)
  THEN Edge("ChallengeIncorrect", "ifChallengeIncorrect", <<>>)
  ELSE Edge("EndOfTurn", NullStr, <<>>)

ExecRevealOnChallenge_always(context) ==
  IF ifChallengeIncorrect(context)
  THEN Edge("ChallengeIncorrect", "ifChallengeIncorrect", <<>>)
  ELSE IF ifActionWasBlocked(context)
  THEN Edge("FinishAction", "ifActionWasBlocked", <<>>)
  ELSE Edge("EndOfTurn", NullStr, <<>>)

ChallengeIncorrect_always(context) ==
  IF ifAutoReveal(context)
  THEN Edge("ExecCounterReveal", "ifAutoReveal", <<>>)
  ELSE NoEdge

ChallengeIncorrect_on(type) ==
  IF type = "REVEAL" THEN Edge("ExecCounterReveal", "assertCanReveal", <<>>)
  ELSE NoEdge

\* mutant of ExecCounterReveal_always: the unconditional last transition
\* is missing
ExecCounterReveal_always_noDefault(context) ==
  IF ifActionWasBlocked(context)
  THEN Edge("EndOfTurn", "ifActionWasBlocked", <<>>)
  ELSE IF ifBlockableAction(context)
  THEN Edge("WaitForBlock", "ifBlockableAction", <<>>)
  ELSE NoEdge

\* mutant of ExecCounterReveal_always: a block that was upheld is forgotten
ExecCounterReveal_always_forgetsBlock(context) ==
  IF ifBlockableAction(context)
  THEN Edge("WaitForBlock", "ifBlockableAction", <<>>)
  ELSE Edge("FinishAction", NullStr, <<>>)

\* mutant of ExecCounterReveal_always: there is no last chance to block
ExecCounterReveal_always_noLastChance(context) ==
  IF ifActionWasBlocked(context)
  THEN Edge("EndOfTurn", "ifActionWasBlocked", <<>>)
  ELSE Edge("FinishAction", NullStr, <<>>)

ExecCounterReveal_always(context) ==
  IF ifActionWasBlocked(context)
  THEN Edge("EndOfTurn", "ifActionWasBlocked", <<>>)
  ELSE IF ifBlockableAction(context)
  THEN Edge("WaitForBlock", "ifBlockableAction", <<>>)
  ELSE Edge("FinishAction", NullStr, <<>>)

\* mutant of WaitForBlock_on: BLOCK pays as it does in WaitForResponse
WaitForBlock_on_paysAgain(type) ==
  CASE type = "BLOCK" -> Edge("Block", "assertCanBlock", <<"payActionCost">>)
    [] type = "ALLOW" -> Edge("FinishAction", "assertValidOpponent", <<>>)
    [] OTHER -> NoEdge

WaitForBlock_on(type) ==
  CASE type = "BLOCK" -> Edge("Block", "assertCanBlock", <<>>)
    [] type = "ALLOW" -> Edge("FinishAction", "assertValidOpponent", <<>>)
    [] OTHER -> NoEdge

FinishAction_always(context) ==
  IF ifPendingReveal(context)
  THEN Edge("RevealOnAction", "ifPendingReveal", <<>>)
  ELSE Edge("EndOfTurn", NullStr, <<>>)

RevealOnAction_always(context) ==
  IF ifAutoReveal(context)
  THEN Edge("EndOfTurn", "ifAutoReveal", <<"revealInfluence">>)
  ELSE NoEdge

RevealOnAction_on(type) ==
  IF type = "REVEAL"
  THEN Edge("EndOfTurn", "assertCanReveal", <<"revealInfluence">>)
  ELSE NoEdge

EndOfTurn_always(context) ==
  IF isOver(context) THEN Edge("GameOver", "Game.isOver", <<>>)
  ELSE Edge("StartOfTurn", NullStr, <<"advanceTurn">>)

\* mutant of on: GameOver hands the turn on when a player sends ALLOW
on_GameOverAllows(state, type) ==
  CASE state = "StartOfTurn" -> StartOfTurn_on(type)
    [] state = "WaitForResponse" -> WaitForResponse_on(type)
    [] state = "Block" -> Block_on(type)
    [] state = "Challenge" -> Challenge_on(type)
    [] state = "ChallengeIncorrect" -> ChallengeIncorrect_on(type)
    [] state = "WaitForBlock" -> WaitForBlock_on(type)
    [] state = "RevealOnAction" -> RevealOnAction_on(type)
    [] state = "GameOver" /\ type = "ALLOW" ->
         Edge("StartOfTurn", "assertValidOpponent", <<"advanceTurn">>)
    [] OTHER -> NoEdge

\* states[state].on[type]
on(state, type) ==
  CASE state = "StartOfTurn" -> StartOfTurn_on(type)
    [] state = "WaitForResponse" -> WaitForResponse_on(type)
    [] state = "Block" -> Block_on(type)
    [] state = "Challenge" -> Challenge_on(type)
    [] state = "ChallengeIncorrect" -> ChallengeIncorrect_on(type)
    [] state = "WaitForBlock" -> WaitForBlock_on(type)
    [] state = "RevealOnAction" -> RevealOnAction_on(type)
    [] OTHER -> NoEdge

\* states[state].always
always(state, context) ==
  CASE state = "WaitForResponse" -> WaitForResponse_always(context)
    [] state = "Challenge" -> Challenge_always(context)
    [] state = "ExecRevealOnChallenge" -> ExecRevealOnChallenge_always(context)
    [] state = "ChallengeIncorrect" -> ChallengeIncorrect_always(context)
    [] state = "ExecCounterReveal" -> ExecCounterReveal_always(context)
    [] state = "FinishAction" -> FinishAction_always(context)
    [] state = "RevealOnAction" -> RevealOnAction_always(context)
    [] state = "EndOfTurn" -> EndOfTurn_always(context)
    [] OTHER -> NoEdge

\* mutant of entry: ChallengeIncorrect does not replace the proven role
entry_keepsProof(state) ==
  CASE state = "StartOfTurn" -> <<"resetContext">>
    [] state = "WaitForResponse" -> <<"setCurrentAction">>
    [] state = "Block" -> <<"setBlocker">>
    [] state = "Challenge" -> <<"setChallenger", "setRevealer(claimant)">>
    [] state = "ExecRevealOnChallenge" -> <<"revealInfluence">>
    [] state = "ChallengeIncorrect" -> <<"setRevealer(challenger)">>
    [] state = "ExecCounterReveal" -> <<"revealInfluence">>
    [] state = "WaitForBlock" -> <<"clearRevealer", "payActionCost">>
    [] state = "FinishAction" -> <<"clearRevealer", "applyAction">>
    [] OTHER -> <<>>

\* states[state].entry
entry(state) ==
  CASE state = "StartOfTurn" -> <<"resetContext">>
    [] state = "WaitForResponse" -> <<"setCurrentAction">>
    [] state = "Block" -> <<"setBlocker">>
    [] state = "Challenge" -> <<"setChallenger", "setRevealer(claimant)">>
    [] state = "ExecRevealOnChallenge" -> <<"revealInfluence">>
    [] state = "ChallengeIncorrect" ->
         <<"replaceInfluence", "setRevealer(challenger)">>
    [] state = "ExecCounterReveal" -> <<"revealInfluence">>
    [] state = "WaitForBlock" -> <<"clearRevealer", "payActionCost">>
    [] state = "FinishAction" -> <<"clearRevealer", "applyAction">>
    [] OTHER -> <<>>

\* the guard of an event transition, by name
cond(name, context, event) ==
  CASE name = "assertCanStartAction" -> assertCanStartAction(context, event)
    [] name = "assertCanBlock" -> assertCanBlock(context, event)
    [] name = "assertCanChallenge" -> assertCanChallenge(context, event)
    [] name = "assertValidOpponent" -> assertValidOpponent(context, event)
    [] name = "assertCurrentPlayer" -> assertCurrentPlayer(context, event)
    [] name = "assertCanReveal" -> assertCanReveal(context, event)

\* one assign action, by name: the new context, or Error when it throws
exec(name, context, event) ==
  CASE name = "resetContext" -> resetContext(context)
    [] name = "setCurrentAction" -> setCurrentAction(context, event)
    [] name = "setBlocker" -> setBlocker(context, event)
    [] name = "setChallenger" -> setChallenger(context, event)
    [] name = "setRevealer(claimant)" ->
         setRevealer(IF ifActionWasBlocked(context) THEN context.blocker
                     ELSE context.whoseTurn, context)
    [] name = "setRevealer(challenger)" ->
         setRevealer(context.challenger, context)
    [] name = "clearRevealer" -> clearRevealer(context)
    [] name = "advanceTurn" -> advanceTurn(context)
    [] name = "applyAction" -> applyAction(context)
    [] name = "revealInfluence" -> revealInfluence(context, event)
    [] name = "replaceInfluence" -> replaceInfluence(context)
    [] name = "payActionCost" -> payActionCost(context)

\* xstate resolves the assign actions of a microstep in order
RECURSIVE updateContext(_, _, _)
updateContext(actions, context, event) ==
  IF actions = <<>> \/ context = Error THEN context
  ELSE updateContext(Tail(actions), exec(Head(actions), context, event), event)

\* One microstep: the transition's actions, then the target's entry actions.
\* m is [value, context, path, acts, err]; err is set when an action throws.
enter(m, target, actions, updated) ==
  IF updated = Error THEN [m EXCEPT !.err = TRUE]
  ELSE [value |-> target, context |-> updated,
        path |-> Append(m.path, target),
        acts |-> m.acts \o actions, err |-> FALSE]

microstep(m, edge, event) ==
  enter(m, edge.target, edge.actions \o entry(edge.target),
        updateContext(edge.actions \o entry(edge.target), m.context, event))

\* the eventless transitions taken until no always guard holds
RECURSIVE eager(_)
RECURSIVE follow(_, _)
follow(m, edge) ==
  IF edge.target = NullStr THEN m ELSE eager(microstep(m, edge, nullEvent))

eager(m) == IF m.err THEN m ELSE follow(m, always(m.value, m.context))

\* What GameMachine.transition(state, event) hands to its caller.
\* outcome: "accepted" a new state is returned; "rejected" a guard threw;
\* "failed" an action threw; "ignored" the state is returned as it was.
\* A throw leaves the caller with the state it passed in.
Result(outcome, start, m) ==
  [outcome |-> outcome,
   value   |-> IF outcome = "accepted" THEN m.value ELSE start.value,
   context |-> IF outcome = "accepted" THEN m.context ELSE start.context,
   path    |-> m.path,
   acts    |-> m.acts]

\* the result of a transition that was selected and ran up to m
taken(start, m) == Result(IF m.err THEN "failed" ELSE "accepted", start, m)

\* the result when the state has no handler for the event type
unhandled(start, m) ==
  Result(IF m.err THEN "failed"
         ELSE IF m.path = <<>> THEN "ignored"
         ELSE "accepted", start, m)

\* mutant of next: the transition's actions are applied before the guard is
\* asked, and a throwing guard leaves their effect behind
orElse(early, context) == IF early = Error THEN context ELSE early

next_actionsFirst(start, edge, event) ==
  IF ~cond(edge.cond, start.context, event)
  THEN [Result("rejected", start, start)
          EXCEPT !.context = orElse(updateContext(edge.actions, start.context,
                                                  event), start.context)]
  ELSE taken(start, eager(microstep(start, edge, event)))

\* StateNode.next: the guard is evaluated on the current context and only a
\* transition whose guard returned true has its actions resolved.
next(start, edge, event) ==
  IF ~cond(edge.cond, start.context, event)
  THEN Result("rejected", start, start)
  ELSE taken(start, eager(microstep(start, edge, event)))

\* GameMachine.transition(state, event) for an event type the machine
\* declares (strict: true throws for any other type).  A state without a
\* handler for the type selects no transition; its always list is then
\* looked at once more.
select(start, edge, event) ==
  IF edge.target # NullStr THEN next(start, edge, event)
  ELSE unhandled(start, eager(start))

transition(state, context, event) ==
  select([value |-> state, context |-> context, path |-> <<>>,
          acts |-> <<>>, err |-> FALSE],
         on(state, event.type), event)

\* ------------------------------------------------------------ the system
VARIABLES
  value,    \* state.value: the name of the state the machine rests in
  context,  \* state.context
  last,     \* the last call of transition: [type, outcome, path, acts, turn],
            \* type kept for an accepted event only
  turn,     \* the turn in progress: [n, actor, action, cash, paid, start,
            \* blocker, challenger, path]
  initial   \* the context the game started from

vars == <<value, context, last, turn, initial>>

\* Rand.makeSeed(123) and Rand.makeSeed(7), each word as <<high, low>>
Seed123 ==
  <<<<21753, 7850>>, <<19415, 9649>>, <<20425, 36704>>, <<15980, 30290>>>>

Seed7 ==
  <<<<15002, 7073>>, <<39689, 53582>>, <<21686, 1426>>, <<62227, 26540>>>>

Card(role, revealed) == [role |-> role, revealed |-> revealed]

Player(cash, card1, card2) == [cash |-> cash, influence |-> <<card1, card2>>]

\* the games the model starts from: the two of src/test/xs-test.js, the
\* first of them also with the second player to move and holding the cash
\* to assassinate, and a game of three players with one card left each
Configs ==
  { [seed |-> Seed123, whoseTurn |-> 0,
     players |-> <<Player(2, Card("duke", FALSE), Card("captain", FALSE)),
                   Player(2, Card("assassin", FALSE), Card("duke", FALSE))>>],
    [seed |-> Seed7, whoseTurn |-> 1,
     players |-> <<Player(2, Card("duke", FALSE), Card("captain", FALSE)),
                   Player(3, Card("assassin", FALSE), Card("duke", FALSE))>>],
    [seed |-> Seed123, whoseTurn |-> 1,
     players |-> <<Player(2, Card("duke", TRUE), Card("contessa", FALSE)),
                   Player(3, Card("captain", TRUE), Card("duke", FALSE))>>],
    [seed |-> Seed7, whoseTurn |-> 0,
     players |-> <<Player(7, Card("duke", FALSE), Card("assassin", TRUE)),
                   Player(2, Card("contessa", TRUE), Card("captain", FALSE)),
                   Player(2, Card("duke", TRUE), Card("duke", FALSE))>>] }

\* sampleGame(seed, context) of the tests
sampleGame(config) ==
  shuffleDeck_s([def |-> DefaultRoles, seed |-> config.seed,
                 deck |-> makeDeck(DefaultRoles),
                 whoseTurn |-> config.whoseTurn, players |-> config.players,
                 currentAction |-> NullStr, target |-> NullIdx,
                 blocker |-> NullIdx, challenger |-> NullIdx,
                 revealer |-> NullIdx, revealedRole |-> NullStr])

\* no turn in progress, after n turns: who acts, with what action and cash,
\* from which context, how often the cost was paid, who blocked and who
\* challenged, and the states the turn went through
NoTurn(n) ==
  [n |-> n, actor |-> NullIdx, action |-> NullStr, cash |-> 0, paid |-> 0,
   start |-> <<>>, blocker |-> NullIdx, challenger |-> NullIdx,
   path |-> <<>>]

\* GameMachine.withContext(initialContext).initialState
Init ==
  \E config \in Configs :
    /\ value = "StartOfTurn"
    /\ context = updateContext(entry("StartOfTurn"), sampleGame(config),
                               nullEvent)
    /\ last = [type |-> "", outcome |-> "", path |-> <<>>, acts |-> <<>>,
               turn |-> NoTurn(0)]
    /\ turn = NoTurn(0)
    /\ initial = context

\* what callers put into the fields of an event: an index that is absent
\* (NullIdx), valid, or past the end; a role of the rulebook or none
PlayerInputs == (-1)..Len(context.players)
TargetInputs == (-1)..(Len(context.players) - 1)
ActionInputs == ActionNames \cup {"bogus", "constructor"}
RoleInputs ==
  {"duke", "assassin", "captain", "ambassador", "contessa", "inquisitor",
   NullStr}

Event(type, player, action, target, role) ==
  [type |-> type, player |-> player, action |-> action, target |-> target,
   role |-> role]

RECURSIVE count(_, _)
count(name, acts) ==
  IF acts = <<>> THEN 0
  ELSE (IF Head(acts) = name THEN 1 ELSE 0) + count(name, Tail(acts))

\* the turn after a call with result r
turnAfter(event, r) ==
  IF r.outcome # "accepted" THEN turn
  ELSE IF event.type = "ACTION"
  THEN [n |-> turn.n + 1, actor |-> event.player, action |-> event.action,
        cash |-> viewPlayer(event.player, context).cash,
        paid |-> count("payActionCost", r.acts),
        start |-> context, blocker |-> NullIdx, challenger |-> NullIdx,
        path |-> r.path]
  ELSE [turn EXCEPT !.paid = @ + count("payActionCost", r.acts),
                    !.blocker = IF event.type = "BLOCK" THEN event.player
                                ELSE @,
                    !.challenger = IF event.type = "CHALLENGE"
                                   THEN event.player ELSE @,
                    !.path = @ \o r.path]

\* the caller sends the event and keeps the state it gets back
Send(event) ==
  \E r \in {transition(value, context, event)} :
    /\ value' = r.value
    /\ context' = r.context
    /\ last' = [type |-> IF r.outcome = "accepted" THEN event.type ELSE "",
                outcome |-> r.outcome, path |-> r.path, acts |-> r.acts,
                turn |-> turnAfter(event, r)]
    /\ turn' = IF r.outcome = "accepted"
                  /\ r.value \in {"StartOfTurn", "GameOver"}
               THEN NoTurn(turnAfter(event, r).n)
               ELSE turnAfter(event, r)
    /\ UNCHANGED initial

SendAction ==
  /\ turn.n < MaxTurns
  /\ \E p \in PlayerInputs, a \in ActionInputs, t \in TargetInputs :
       /\ p = context.whoseTurn \/ t = NullIdx
       /\ Send(Event("ACTION", p, a, t, NullStr))

SendBlock ==
  \E p \in PlayerInputs, r \in RoleInputs :
    Send(Event("BLOCK", p, NullStr, NullIdx, r))

SendChallenge ==
  \E p \in PlayerInputs : Send(Event("CHALLENGE", p, NullStr, NullIdx, NullStr))

SendAllow ==
  \E p \in PlayerInputs : Send(Event("ALLOW", p, NullStr, NullIdx, NullStr))

SendReveal ==
  \E p \in PlayerInputs, r \in RoleInputs :
    Send(Event("REVEAL", p, NullStr, NullIdx, r))

Next == SendAction \/ SendBlock \/ SendChallenge \/ SendAllow \/ SendReveal

Spec == Init /\ [][Next]_vars

\* ------------------------------------------------------------ properties
\* the last call went through state s / ran the assign action a
InPath(s) == \E i \in 1..Len(last.path) : last.path[i] = s
Did(a) == \E i \in 1..Len(last.acts) : last.acts[i] = a

RECURSIVE cards(_, _, _)
\* the number of cards in players 1..n that are revealed / unrevealed
cards(players, revealed, n) ==
  IF n = 0 THEN 0
  ELSE cards(players, revealed, n - 1)
       + countWhere(players[n].influence, revealed, Len(players[n].influence))

unrevealedCards(c) == cards(c.players, FALSE, Len(c.players))
revealedCards(c) == cards(c.players, TRUE, Len(c.players))
living(c) == {i \in 1..Len(c.players) : ~isDead(c.players[i])}

\* C1: in every reachable state every player's cash is >= 0.
CashNonNegative ==
  \A i \in 1..Len(context.players) : context.players[i].cash >= 0

\* C1 witness: an assassination was paid for with the actor's last coins
CashNonNegative_witness ==
  /\ last.outcome = "accepted"
  /\ last.turn.action = "assassinate"
  /\ last.turn.paid = 1
  /\ viewPlayer(last.turn.actor, context).cash = 0

\* C2 as stated: deck length plus the number of unrevealed influence cards
\* is what it was in the initial state.
DeckPlusUnrevealedConstant ==
  Len(context.deck) + unrevealedCards(context)
    = Len(initial.deck) + unrevealedCards(initial)

\* C2 amended: deck length plus the number of unrevealed influence cards is
\* its initial value less the number of cards revealed since the start (a
\* revealed card stays in its owner's slot, it does not go back to the deck).
DeckPlusUnrevealedAccounted ==
  Len(context.deck) + unrevealedCards(context)
    = Len(initial.deck) + unrevealedCards(initial)
      - (revealedCards(context) - revealedCards(initial))

\* C2 witness: a card has been lost in a turn in which a role was redealt
DeckPlusUnrevealedAccounted_witness ==
  /\ revealedCards(context) > revealedCards(initial)
  /\ context.deck # initial.deck
  /\ value = "StartOfTurn"

\* C3: in GameOver exactly one player has an unrevealed influence card.
GameOverHasOneSurvivor ==
  value = "GameOver" => Cardinality(living(context)) = 1

\* C3 witness: the game ended with the last reveal of a player
GameOverHasOneSurvivor_witness ==
  /\ value = "GameOver"
  /\ last.outcome = "accepted"
  /\ Did("revealInfluence")

\* C4: when EndOfTurn has advanced the turn and the machine rests in
\* StartOfTurn, whoseTurn is a player with an unrevealed influence card.
TurnGoesToLivingPlayer ==
  (value = "StartOfTurn" /\ last.outcome = "accepted" /\ InPath("EndOfTurn"))
    => ~isDead(viewPlayer(context.whoseTurn, context))

\* C5: within one turn payActionCost runs at most once, and the active
\* player's cash is never below its cash at the ACTION less the action's cost.
PaysAtMostOnce ==
  last.turn.actor # NullIdx =>
    /\ last.turn.paid <= 1
    /\ viewPlayer(last.turn.actor, context).cash
         >= last.turn.cash - getCost(last.turn.action)

\* C5 witness: a late block of an action whose cost was paid on the way
\* into WaitForBlock, after an incorrect challenge
PaysAtMostOnce_witness ==
  /\ value = "Block"
  /\ context.challenger # NullIdx
  /\ getCost(context.currentAction) > 0
  /\ last.turn.paid = 1

EveryEventTransitionsOrErrors == last.outcome # "ignored"

\* C8: in StartOfTurn currentAction, target, blocker, challenger, revealer
\* and revealedRole are all null.
StartOfTurnIsClean ==
  value = "StartOfTurn" =>
    /\ context.currentAction = NullStr
    /\ context.target = NullIdx
    /\ context.blocker = NullIdx
    /\ context.challenger = NullIdx
    /\ context.revealer = NullIdx
    /\ context.revealedRole = NullStr

\* C8 witness: StartOfTurn entered from the end of a turn that had set a
\* target, a blocker, a challenger and a revealer
StartOfTurnIsClean_witness ==
  /\ value = "StartOfTurn"
  /\ last.outcome = "accepted"
  /\ InPath("EndOfTurn")
  /\ last.turn.action = "assassinate"
  /\ Did("revealInfluence")

\* C9: the state an accepted event results in is a rest state, never one of
\* ExecRevealOnChallenge, ExecCounterReveal, FinishAction, EndOfTurn.
RestsInRestState == value \in RestStates

\* C9 witness: one event took the machine through all four transient states
RestsInRestState_witness ==
  /\ last.outcome = "accepted"
  /\ \A s \in TransientStates : InPath(s)

roleCount(role, c) ==
  Cardinality({i \in 1..Len(c.deck) : c.deck[i] = role})
  + Cardinality({<<i, j>> \in (1..Len(c.players)) \X (1..2) :
                   c.players[i].influence[j].role = role})

\* C12: the multiset of roles in the deck and all influence slots, revealed
\* or not, is in every reachable state what it was in the initial state.
RolesMultisetConstant ==
  \A role \in RoleInputs : roleCount(role, context) = roleCount(role, initial)

\* C12 witness: a redeal has given a player a role other than the one it
\* had proven
RolesMultisetConstant_witness ==
  /\ last.outcome = "accepted"
  /\ Did("replaceInfluence")
  /\ \E i \in 1..Len(context.players) :
       \E j \in 1..2 : context.players[i].influence[j].role
                         # initial.players[i].influence[j].role

\* the ACTION events a caller can send
ActionEvents ==
  {Event("ACTION", p, a, t, NullStr) :
     p \in PlayerInputs, a \in ActionInputs, t \in TargetInputs}

\* the condition the rulebook puts on an ACTION event
legalAction(e) ==
  /\ e.player >= 0 /\ e.player < Len(context.players)
  /\ e.player = context.whoseTurn
  /\ e.action \in ActionNames
  /\ e.action \in {"coup", "assassinate", "steal", "interrogate"} =>
       /\ e.target >= 0 /\ e.target < Len(context.players)
       /\ e.target # context.whoseTurn
  /\ viewPlayer(context.whoseTurn, context).cash
       >= (IF e.action = "coup" THEN 7
           ELSE IF e.action = "assassinate" THEN 3 ELSE 0)

\* C13: in StartOfTurn an ACTION event is accepted if and only if it is
\* from the player to move, names an action of the rulebook, has a valid
\* target other than the player to move when the action is targeted, and
\* the player can afford the cost; otherwise it is rejected and the state
\* stays as it was.
StartActionAcceptedIffLegal ==
  value = "StartOfTurn" =>
    \A e \in ActionEvents :
      \A r \in {transition(value, context, e)} :
        IF legalAction(e) THEN r.outcome = "accepted"
        ELSE r.outcome = "rejected" /\ r.value = "StartOfTurn"
             /\ r.context = context

\* the players' cash / influence other than player idx (0-based) are in c2
\* what they are in c1
othersCashSame(idx, c1, c2) ==
  \A i \in 1..Len(c1.players) :
    i # idx + 1 => c2.players[i].cash = c1.players[i].cash

othersInfluenceSame(idx, c1, c2) ==
  \A i \in 1..Len(c1.players) :
    i # idx + 1 => c2.players[i].influence = c1.players[i].influence

\* C14: an accepted ACTION{income} is not left waiting for a response: it
\* results directly in StartOfTurn (or GameOver), the active player's cash
\* one higher, every other player's cash as it was, whoseTurn advanced.
IncomeNeedsNoResponse ==
  [][(last'.outcome = "accepted" /\ last'.type = "ACTION"
        /\ last'.turn.action = "income")
     => /\ value' \in {"StartOfTurn", "GameOver"}
        /\ viewPlayer(context.whoseTurn, context').cash
             = viewPlayer(context.whoseTurn, context).cash + 1
        /\ othersCashSame(context.whoseTurn, context, context')
        /\ value' = "StartOfTurn" =>
             context'.whoseTurn
               = (context.whoseTurn + 1) % Len(context.players)]_vars

\* C14 witness: income was drawn
IncomeNeedsNoResponse_witness ==
  /\ last.outcome = "accepted"
  /\ last.type = "ACTION"
  /\ last.turn.action = "income"
  /\ value = "StartOfTurn"
  /\ viewPlayer(last.turn.actor, context).cash = last.turn.cash + 1

lostRole(idx, role, c1, c2) ==
  \E j \in 1..2 :
    /\ c1.players[idx + 1].influence[j] = Card(role, FALSE)
    /\ c2.players[idx + 1].influence[j] = Card(role, TRUE)
    /\ c2.players[idx + 1].influence[3 - j]
         = c1.players[idx + 1].influence[3 - j]

\* every player's cash is in c2 what it is in c1
cashSame(c1, c2) ==
  \A i \in 1..Len(c1.players) : c2.players[i].cash = c1.players[i].cash

\* what a correct challenge of the action results in, r being the result of
\* the call that reveals the role
correctlyChallenged(role, r) ==
  /\ r.outcome = "accepted"
  /\ r.value \in {"StartOfTurn", "GameOver"}
  /\ lostRole(context.whoseTurn, role, context, r.context)
  /\ lostRole(context.whoseTurn, role, turn.start, r.context)
  /\ cashSame(turn.start, r.context)
  /\ othersInfluenceSame(context.whoseTurn, turn.start, r.context)

\* C16: when a challenged action's player reveals a role that the action
\* does not require, by a REVEAL or because it is its only card, it loses
\* exactly that influence, no cash changes hands (no gain, no cost), no
\* other player loses influence and the turn ends.
CorrectChallengeFoilsAction ==
  /\ (value = "Challenge" /\ context.blocker = NullIdx) =>
       \A role \in RoleInputs :
         (/\ playerHasRole(context.whoseTurn, role, context)
          /\ role \notin getRequiredRoles(context.currentAction)) =>
           \A r \in {transition(value, context,
                                Event("REVEAL", context.whoseTurn, NullStr,
                                      NullIdx, role))} :
             correctlyChallenged(role, r)
  /\ (value = "WaitForResponse"
        /\ playerHasNInf(context.whoseTurn, 1, context)
        /\ isRoleRequired(context.currentAction)
        /\ getFirstRole(viewPlayer(context.whoseTurn, context))
             \notin getRequiredRoles(context.currentAction)) =>
       \A p \in (0..(Len(context.players) - 1)) \ {context.whoseTurn} :
         \A r \in {transition(value, context,
                              Event("CHALLENGE", p, NullStr, NullIdx,
                                    NullStr))} :
           correctlyChallenged(
             getFirstRole(viewPlayer(context.whoseTurn, context)), r)

\* C16 witness: an assassination was challenged, the player revealed a
\* duke, and the turn is over with the cash it started with
CorrectChallengeFoilsAction_witness ==
  /\ last.outcome = "accepted"
  /\ last.type = "REVEAL"
  /\ last.turn.action = "assassinate"
  /\ last.turn.path = <<"WaitForResponse", "Challenge",
                        "ExecRevealOnChallenge", "EndOfTurn", "StartOfTurn">>
  /\ lostRole(last.turn.actor, "duke", last.turn.start, context)
  /\ viewPlayer(last.turn.actor, context).cash = last.turn.cash

\* the number of unrevealed influences of player idx (0-based) in c
infOf(idx, c) == countInf(viewPlayer(idx, c))

\* the influence counts of the players other than a and b are in c2 what
\* they are in c1
restInfSame(a, b, c1, c2) ==
  \A i \in 0..(Len(c1.players) - 1) :
    i \notin {a, b} => infOf(i, c2) = infOf(i, c1)

\* what an incorrect challenge by player ch of an action that cannot be
\* blocked results in, r being the result of the call that proves the role:
\* either the machine waits for the challenger's reveal, or the challenger
\* has lost its only card, the action is applied and the turn is over
incorrectlyChallenged(ch, r) ==
  /\ r.outcome = "accepted"
  /\ infOf(context.whoseTurn, r.context) = infOf(context.whoseTurn, turn.start)
  /\ restInfSame(context.whoseTurn, ch, turn.start, r.context)
  /\ othersCashSame(context.whoseTurn, turn.start, r.context)
  /\ IF r.value = "ChallengeIncorrect"
     THEN /\ r.context.revealer = ch
          /\ r.context.revealedRole = NullStr
          /\ infOf(ch, r.context) = infOf(ch, turn.start)
          /\ cashSame(turn.start, r.context)
     ELSE /\ r.value \in {"StartOfTurn", "GameOver"}
          /\ infOf(ch, r.context) = infOf(ch, turn.start) - 1
          /\ viewPlayer(context.whoseTurn, r.context).cash
               = turn.cash + gain(context.currentAction)

\* C17: when an action that cannot be blocked is challenged and its player
\* proves a required role (by a REVEAL, or because it is its only card), the
\* challenger becomes the revealer and loses exactly one influence (by its
\* REVEAL, or at once when it is its only card); then the action is
\* applied, the active player has as many unrevealed influences as before
\* the challenge, and the turn ends.
IncorrectChallengeCostsChallenger ==
  /\ (value = "Challenge" /\ context.blocker = NullIdx
        /\ ~isBlockable(context.currentAction)) =>
       \A role \in getRequiredRoles(context.currentAction) :
         playerHasRole(context.whoseTurn, role, context) =>
           \A r \in {transition(value, context,
                                Event("REVEAL", context.whoseTurn, NullStr,
                                      NullIdx, role))} :
             incorrectlyChallenged(context.challenger, r)
  /\ (value = "WaitForResponse" /\ ~isBlockable(context.currentAction)
        /\ playerHasNInf(context.whoseTurn, 1, context)
        /\ getFirstRole(viewPlayer(context.whoseTurn, context))
             \in getRequiredRoles(context.currentAction)) =>
       \A p \in (0..(Len(context.players) - 1)) \ {context.whoseTurn} :
         \A r \in {transition(value, context,
                              Event("CHALLENGE", p, NullStr, NullIdx,
                                    NullStr))} :
           incorrectlyChallenged(p, r)
  /\ (value = "ChallengeIncorrect" /\ context.blocker = NullIdx
        /\ ~isBlockable(context.currentAction)) =>
       \A role \in RoleInputs :
         playerHasRole(context.revealer, role, context) =>
           \A r \in {transition(value, context,
                                Event("REVEAL", context.revealer, NullStr,
                                      NullIdx, role))} :
             /\ r.value # "ChallengeIncorrect"
             /\ incorrectlyChallenged(context.revealer, r)
             /\ lostRole(context.revealer, role, context, r.context)

\* C17 witness: tax was challenged, the duke was proven, the challenger
\* revealed a card and the tax was paid out
IncorrectChallengeCostsChallenger_witness ==
  /\ last.outcome = "accepted"
  /\ last.type = "REVEAL"
  /\ last.turn.action = "tax"
  /\ last.turn.path
       = <<"WaitForResponse", "Challenge", "ExecRevealOnChallenge",
           "ChallengeIncorrect", "ExecCounterReveal", "FinishAction",
           "EndOfTurn", "StartOfTurn">>
  /\ viewPlayer(last.turn.actor, context).cash = last.turn.cash + 3
  /\ infOf(last.turn.challenger, context)
       = infOf(last.turn.challenger, last.turn.start) - 1
  /\ infOf(last.turn.actor, context) = infOf(last.turn.actor, last.turn.start)

\* the number of cards of a role in the deck and in the slots of player idx
roleCountOf(idx, role, c) ==
  Cardinality({i \in 1..Len(c.deck) : c.deck[i] = role})
  + Cardinality({j \in 1..2 : viewPlayer(idx, c).influence[j].role = role})

\* c2 is c1 after player rv has proven the role against challenger ch and
\* ChallengeIncorrect has been entered: the proven card went back to the
\* deck, the deck was shuffled (sh is that shuffle) and its top card took
\* the place of the proven card
proofReplaced(rv, ch, role, sh, c1, c2) ==
  /\ infOf(rv, c2) = infOf(rv, c1)
  /\ Len(c2.deck) = Len(c1.deck)
  /\ \A x \in RoleInputs : roleCountOf(rv, x, c2) = roleCountOf(rv, x, c1)
  /\ c2.deck = Tail(sh[1])
  /\ c2.seed = sh[2]
  /\ \E j \in 1..2 :
       /\ viewPlayer(rv, c1).influence[j] = Card(role, FALSE)
       /\ viewPlayer(rv, c2).influence[j] = Card(sh[1][1], FALSE)
       /\ viewPlayer(rv, c2).influence[3 - j]
            = viewPlayer(rv, c1).influence[3 - j]
  /\ c2.revealer = ch
  /\ c2.revealedRole = NullStr

\* the role proves the claim that is being challenged
provesClaim(role) ==
  IF context.blocker # NullIdx
  THEN role \in getBlockingRoles(context.currentAction)
  ELSE role \in getRequiredRoles(context.currentAction)

influenceSame(c1, c2) ==
  \A i \in 1..Len(c1.players) :
    c2.players[i].influence = c1.players[i].influence

\* C19: a legal BLOCK in WaitForResponse leads to Block and deducts the
\* action's cost from the active player at that moment; in Block an ALLOW
\* is accepted from the active player only, and then the action is not
\* applied (no gain, nobody reveals), the cost stays deducted, and the turn
\* ends with whoseTurn advanced.
AllowedBlockFoilsAction ==
  /\ value = "WaitForResponse" =>
       \A p \in (0..(Len(context.players) - 1)) \ {context.whoseTurn} :
         \A role \in getBlockingRoles(context.currentAction) :
           \A r \in {transition(value, context,
                                Event("BLOCK", p, NullStr, NullIdx, role))} :
             /\ r.outcome = "accepted"
             /\ r.value = "Block"
             /\ viewPlayer(context.whoseTurn, r.context).cash
                  = turn.cash - getCost(context.currentAction)
             /\ othersCashSame(context.whoseTurn, turn.start, r.context)
             /\ influenceSame(turn.start, r.context)
  /\ (value = "Block" /\ turn.path = <<"WaitForResponse", "Block">>) =>
       \A p \in 0..(Len(context.players) - 1) :
         \A r \in {transition(value, context,
                              Event("ALLOW", p, NullStr, NullIdx, NullStr))} :
           IF p # context.whoseTurn
           THEN r.outcome = "rejected" /\ r.context = context
           ELSE /\ r.outcome = "accepted"
                /\ r.value = "StartOfTurn"
                /\ r.context.whoseTurn
                     = (context.whoseTurn + 1) % Len(context.players)
                /\ viewPlayer(context.whoseTurn, r.context).cash
                     = turn.cash - getCost(context.currentAction)
                /\ othersCashSame(context.whoseTurn, turn.start, r.context)
                /\ influenceSame(turn.start, r.context)

\* C19 witness: an assassination was blocked, the block was allowed, and
\* the assassin has paid
AllowedBlockFoilsAction_witness ==
  /\ last.outcome = "accepted"
  /\ last.type = "ALLOW"
  /\ last.turn.action = "assassinate"
  /\ last.turn.path = <<"WaitForResponse", "Block", "EndOfTurn", "StartOfTurn">>
  /\ viewPlayer(last.turn.actor, context).cash = last.turn.cash - 3
  /\ influenceSame(last.turn.start, context)

\* what an incorrect challenge by player ch of the block of player bl
\* results in, r being the result of the call that proves the blocking
\* role or reveals the challenger's card: either the machine waits for the
\* challenger's reveal, or the challenger has lost a card and the turn is
\* over with the action not applied
blockUpheld(bl, ch, r) ==
  /\ r.outcome = "accepted"
  /\ infOf(bl, r.context) = infOf(bl, context)
  /\ restInfSame(bl, ch, context, r.context)
  /\ viewPlayer(context.whoseTurn, r.context).cash
       = turn.cash - getCost(context.currentAction)
  /\ othersCashSame(context.whoseTurn, turn.start, r.context)
  /\ IF r.value = "ChallengeIncorrect"
     THEN /\ r.context.revealer = ch
          /\ r.context.revealedRole = NullStr
          /\ infOf(ch, r.context) = infOf(ch, context)
     ELSE /\ r.value \in {"StartOfTurn", "GameOver"}
          /\ infOf(ch, r.context) = infOf(ch, context) - 1

\* C20: when a block is challenged and the blocker proves a blocking role
\* (by a REVEAL, or because it is its only card), the blocker's card is
\* replaced and it has as many unrevealed influences as before, the
\* challenger loses exactly one influence (by its REVEAL, or at once when
\* it is its only card), the action is not applied (the active player has
\* paid the cost and receives no gain), and the turn ends.
UpheldBlockFoilsAction ==
  /\ (value = "Challenge" /\ context.blocker # NullIdx) =>
       \A role \in getBlockingRoles(context.currentAction) :
         playerHasRole(context.blocker, role, context) =>
           \A r \in {transition(value, context,
                                Event("REVEAL", context.blocker, NullStr,
                                      NullIdx, role))} :
             blockUpheld(context.blocker, context.challenger, r)
  /\ (value = "Block"
        /\ playerHasNInf(context.blocker, 1, context)
        /\ getFirstRole(viewPlayer(context.blocker, context))
             \in getBlockingRoles(context.currentAction)) =>
       \A p \in (0..(Len(context.players) - 1)) \ {context.blocker} :
         \A r \in {transition(value, context,
                              Event("CHALLENGE", p, NullStr, NullIdx,
                                    NullStr))} :
           blockUpheld(context.blocker, p, r)
  /\ (value = "ChallengeIncorrect" /\ context.blocker # NullIdx) =>
       \A role \in RoleInputs :
         playerHasRole(context.revealer, role, context) =>
           \A r \in {transition(value, context,
                                Event("REVEAL", context.revealer, NullStr,
                                      NullIdx, role))} :
             /\ r.value # "ChallengeIncorrect"
             /\ blockUpheld(context.blocker, context.revealer, r)
             /\ lostRole(context.revealer, role, context, r.context)

\* C20 witness: a block of foreign aid was challenged, the duke was proven,
\* the challenger revealed a card and no aid was paid
UpheldBlockFoilsAction_witness ==
  /\ last.outcome = "accepted"
  /\ last.type = "REVEAL"
  /\ last.turn.action = "foreign-aid"
  /\ last.turn.path
       = <<"WaitForResponse", "Block", "Challenge", "ExecRevealOnChallenge",
           "ChallengeIncorrect", "ExecCounterReveal", "EndOfTurn",
           "StartOfTurn">>
  /\ viewPlayer(last.turn.actor, context).cash = last.turn.cash
  /\ infOf(last.turn.challenger, context)
       = infOf(last.turn.challenger, last.turn.start) - 1
  /\ infOf(last.turn.blocker, context)
       = infOf(last.turn.blocker, last.turn.start)

\* player idx (0-based) holds in c1 an unrevealed card of the role that is
\* revealed in c2
revealedIn(idx, role, c1, c2) ==
  \E j \in 1..2 :
    /\ viewPlayer(idx, c1).influence[j] = Card(role, FALSE)
    /\ viewPlayer(idx, c2).influence[j] = Card(role, TRUE)

\* the result r went through state s
Through(s, r) == \E i \in 1..Len(r.path) : r.path[i] = s

\* what a correct challenge of the block of player bl results in, r being
\* the result of the call that reveals the role: the blocker has lost the
\* card and the action is applied; an assassination makes the target the
\* revealer, who reveals at once when it has one card left
blockFoiled(bl, role, r) ==
  /\ r.outcome = "accepted"
  /\ Through("FinishAction", r)
  /\ revealedIn(bl, role, context, r.context)
  /\ viewPlayer(context.whoseTurn, r.context).cash
       = turn.cash - getCost(context.currentAction)
         + gain(context.currentAction)
  /\ othersCashSame(context.whoseTurn, turn.start, r.context)
  /\ IF context.currentAction # "assassinate"
     THEN /\ r.value \in {"StartOfTurn", "GameOver"}
          /\ lostRole(bl, role, context, r.context)
          /\ othersInfluenceSame(bl, context, r.context)
     ELSE /\ restInfSame(bl, context.target, context, r.context)
          /\ (r.value = "RevealOnAction")
               = (infOf(context.target, context)
                    - (IF context.target = bl THEN 1 ELSE 0) # 1)
          /\ IF r.value = "RevealOnAction"
             THEN /\ r.context.revealer = context.target
                  /\ r.context.revealedRole = NullStr
                  /\ lostRole(bl, role, context, r.context)
                  /\ othersInfluenceSame(bl, context, r.context)
             ELSE /\ r.value \in {"StartOfTurn", "GameOver"}
                  /\ infOf(bl, r.context)
                       = infOf(bl, context)
                         - (IF context.target = bl THEN 2 ELSE 1)
                  /\ infOf(context.target, r.context)
                       = infOf(context.target, context)
                         - (IF context.target = bl THEN 2 ELSE 1)

AllowedAssassinationCostsTarget ==
  /\ (value = "WaitForResponse" /\ context.currentAction = "assassinate") =>
       /\ viewPlayer(context.whoseTurn, context).cash = turn.cash
       /\ \A p \in (0..(Len(context.players) - 1)) \ {context.whoseTurn} :
            \A r \in {transition(value, context,
                                 Event("ALLOW", p, NullStr, NullIdx,
                                       NullStr))} :
              /\ r.outcome = "accepted"
              /\ viewPlayer(context.whoseTurn, r.context).cash
                   = turn.cash - 3
              /\ othersCashSame(context.whoseTurn, context, r.context)
              /\ othersInfluenceSame(context.target, context, r.context)
              /\ infOf(context.target, context) = 2 =>
                   /\ r.value = "RevealOnAction"
                   /\ r.context.revealer = context.target
                   /\ r.context.revealedRole = NullStr
                   /\ influenceSame(context, r.context)
              /\ infOf(context.target, context) = 1 =>
                   /\ r.value \in {"StartOfTurn", "GameOver"}
                   /\ infOf(context.target, r.context) = 0
  /\ (value = "RevealOnAction"
        /\ turn.path = <<"WaitForResponse", "FinishAction", "RevealOnAction">>)
     => /\ context.revealer = context.target
        /\ \A role \in RoleInputs :
             playerHasRole(context.target, role, context) =>
               \A r \in {transition(value, context,
                                    Event("REVEAL", context.target, NullStr,
                                          NullIdx, role))} :
                 /\ r.outcome = "accepted"
                 /\ r.value \in {"StartOfTurn", "GameOver"}
                 /\ lostRole(context.target, role, context, r.context)
                 /\ othersInfluenceSame(context.target, context, r.context)
                 /\ cashSame(context, r.context)

\* C22 witness: an assassination was allowed and the target gave up its
\* captain; the assassin has paid its 3 coins
AllowedAssassinationCostsTarget_witness ==
  /\ last.outcome = "accepted"
  /\ last.type = "REVEAL"
  /\ last.turn.action = "assassinate"
  /\ last.turn.path = <<"WaitForResponse", "FinishAction", "RevealOnAction",
                        "EndOfTurn", "StartOfTurn">>
  /\ viewPlayer(last.turn.actor, context).cash = last.turn.cash - 3
  /\ \E t \in (0..(Len(context.players) - 1)) \ {last.turn.actor} :
       lostRole(t, "captain", last.turn.start, context)

\* the events that can make a challenger reveal its card: the REVEAL of a
\* card the revealer holds, and the CHALLENGE of an opponent
RevealingEvents ==
  {Event("REVEAL", context.revealer, NullStr, NullIdx, role) :
     role \in {x \in RoleInputs :
                 /\ context.revealer # NullIdx
                 /\ playerHasRole(context.revealer, x, context)}}
  \cup {Event("CHALLENGE", p, NullStr, NullIdx, NullStr) :
          p \in (0..(Len(context.players) - 1)) \ {context.whoseTurn}}

\* the machine waits in c for a last block: the cost is paid, nobody is to
\* reveal
lastChance(c) ==
  /\ viewPlayer(c.whoseTurn, c).cash = turn.cash - getCost(c.currentAction)
  /\ othersCashSame(c.whoseTurn, turn.start, c)
  /\ c.revealer = NullIdx
  /\ c.revealedRole = NullStr
  /\ c.blocker = NullIdx

\* C23: when the challenger of a blockable action has revealed its card
\* after an incorrect challenge, the machine rests in WaitForBlock with the
\* action's cost deducted from the active player and revealer and
\* revealedRole cleared; from there a legal BLOCK leads to Block and an
\* opponent's ALLOW to the action being applied, neither deducting the
\* cost again.
LastChanceToBlock ==
  /\ (value \in {"WaitForResponse", "Challenge", "ChallengeIncorrect"}
        /\ context.blocker = NullIdx) =>
       \A e \in RevealingEvents :
         \A r \in {transition(value, context, e)} :
           (r.outcome = "accepted" /\ Through("ExecCounterReveal", r)
              /\ isBlockable(context.currentAction)) =>
             /\ r.value = "WaitForBlock"
             /\ lastChance(r.context)
  /\ value = "WaitForBlock" =>
       /\ lastChance(context)
       /\ isBlockable(context.currentAction)
       /\ \A p \in (0..(Len(context.players) - 1)) \ {context.whoseTurn} :
            /\ \A role \in getBlockingRoles(context.currentAction) :
                 \A r \in {transition(value, context,
                                      Event("BLOCK", p, NullStr, NullIdx,
                                            role))} :
                   /\ r.outcome = "accepted"
                   /\ r.value = "Block"
                   /\ r.context.blocker = p
                   /\ cashSame(context, r.context)
            /\ \A r \in {transition(value, context,
                                     Event("ALLOW", p, NullStr, NullIdx,
                                           NullStr))} :
                 /\ r.outcome = "accepted"
                 /\ Through("FinishAction", r)
                 /\ viewPlayer(context.whoseTurn, r.context).cash
                      = turn.cash - getCost(context.currentAction)
                        + gain(context.currentAction)
                 /\ othersCashSame(context.whoseTurn, context, r.context)
                 /\ context.currentAction = "assassinate" =>
                      \/ r.context.revealer = context.target
                      \/ infOf(context.target, r.context)
                           = infOf(context.target, context) - 1

\* C23 witness: an assassination was challenged in vain, the challenger
\* revealed, the machine waited for a block and the assassination was
\* then allowed at the price of 3 coins
LastChanceToBlock_witness ==
  /\ last.outcome = "accepted"
  /\ last.type = "ALLOW"
  /\ last.turn.action = "assassinate"
  /\ Len(last.turn.path) >= 7
  /\ SubSeq(last.turn.path, 5, 7)
       = <<"ExecCounterReveal", "WaitForBlock", "FinishAction">>
  /\ viewPlayer(last.turn.actor, context).cash = last.turn.cash - 3

\* scenario S7: a game of two players, the second to move with a duke as
\* its only unrevealed influence, has played tax
S7 ==
  /\ value = "WaitForResponse"
  /\ Len(context.players) = 2
  /\ context.whoseTurn = 1
  /\ context.currentAction = "tax"
  /\ infOf(1, context) = 1
  /\ getFirstRole(viewPlayer(1, context)) = "duke"

\* C24 as stated: in scenario S7 the challenge of the first player ends
\* the game with the second player (the one who played tax) having no
\* unrevealed influence.
S7EndsWithTaxPlayerDead ==
  S7 =>
    \A r \in {transition(value, context,
                         Event("CHALLENGE", 0, NullStr, NullIdx, NullStr))} :
      /\ r.outcome = "accepted"
      /\ r.value = "GameOver"
      /\ infOf(1, r.context) = 0

\* C24 amended: in scenario S7, the first player holding one unrevealed
\* influence too, its challenge ends the game with the challenger having
\* no unrevealed influence: the duke is revealed without a REVEAL event,
\* proves the tax and is redealt, the challenger's only card is revealed,
\* and the second player keeps one unrevealed influence and draws the tax.
S7EndsWithChallengerDead ==
  (S7 /\ infOf(0, context) = 1) =>
    \A r \in {transition(value, context,
                         Event("CHALLENGE", 0, NullStr, NullIdx, NullStr))} :
      /\ r.outcome = "accepted"
      /\ r.value = "GameOver"
      /\ r.path = <<"Challenge", "ExecRevealOnChallenge", "ChallengeIncorrect",
                    "ExecCounterReveal", "FinishAction", "EndOfTurn",
                    "GameOver">>
      /\ infOf(0, r.context) = 0
      /\ infOf(1, r.context) = 1
      /\ viewPlayer(1, r.context).cash = viewPlayer(1, context).cash + 3

\* C24 witness: the game of scenario S7 is over after the challenge, the
\* challenger dead and the tax drawn
S7EndsWithChallengerDead_witness ==
  /\ value = "GameOver"
  /\ last.outcome = "accepted"
  /\ last.type = "CHALLENGE"
  /\ last.turn.action = "tax"
  /\ last.turn.actor = 1
  /\ Len(context.players) = 2
  /\ getFirstRole(viewPlayer(1, last.turn.start)) = "duke"
  /\ infOf(1, last.turn.start) = 1
  /\ infOf(0, context) = 0
  /\ infOf(1, context) = 1

\* the states that wait for a REVEAL
RevealStates == {"Challenge", "ChallengeIncorrect", "RevealOnAction"}

\* the events that can take the machine into one of them
RespondingEvents ==
  {Event("CHALLENGE", p, NullStr, NullIdx, NullStr) :
     p \in 0..(Len(context.players) - 1)}
  \cup {Event("ALLOW", p, NullStr, NullIdx, NullStr) :
          p \in 0..(Len(context.players) - 1)}
  \cup {Event("REVEAL", p, NullStr, NullIdx, role) :
          p \in 0..(Len(context.players) - 1), role \in RoleInputs}

\* the player whose claim a CHALLENGE in the current state is about
claimant ==
  IF context.blocker # NullIdx THEN context.blocker ELSE context.whoseTurn

\* the only card of player idx has been revealed between context and c2
soleCardRevealed(idx, c2) ==
  /\ infOf(idx, c2) = 0
  /\ revealedIn(idx, getFirstRole(viewPlayer(idx, context)), context, c2)

\* C25: a revealer with exactly one unrevealed influence has that card
\* revealed in the call that makes it the revealer, without a REVEAL event,
\* on entry to Challenge, to ChallengeIncorrect and to RevealOnAction; the
\* machine never rests in one of these states with a revealer that has
\* exactly one unrevealed influence.
AutoRevealOfSoleCard ==
  /\ value \in RevealStates => infOf(context.revealer, context) # 1
  /\ value \in {"WaitForResponse", "Block"} =>
       \A p \in 0..(Len(context.players) - 1) :
         \A r \in {transition(value, context,
                              Event("CHALLENGE", p, NullStr, NullIdx,
                                    NullStr))} :
           r.outcome = "accepted" =>
             IF infOf(claimant, context) = 1
             THEN /\ r.value # "Challenge"
                  /\ Len(r.path) >= 2
                  /\ r.path[2] = "ExecRevealOnChallenge"
                  /\ IF provesClaim(getFirstRole(viewPlayer(claimant,
                                                            context)))
                     THEN Through("ChallengeIncorrect", r)
                     ELSE soleCardRevealed(claimant, r.context)
             ELSE r.value = "Challenge" /\ r.path = <<"Challenge">>
  /\ value \in {"WaitForResponse", "Block", "Challenge"} =>
       \A e \in RespondingEvents :
         \A r \in {transition(value, context, e)} :
           (r.outcome = "accepted" /\ Through("ChallengeIncorrect", r)) =>
             \A ch \in {IF e.type = "CHALLENGE" THEN e.player
                         ELSE context.challenger} :
               IF infOf(ch, context) = 1
               THEN /\ r.value # "ChallengeIncorrect"
                    /\ Through("ExecCounterReveal", r)
                    /\ soleCardRevealed(ch, r.context)
               ELSE r.value = "ChallengeIncorrect"
  /\ value \in {"WaitForResponse", "WaitForBlock", "Block", "Challenge"} =>
       \A e \in RespondingEvents :
         \A r \in {transition(value, context, e)} :
           (r.outcome = "accepted" /\ Through("RevealOnAction", r)) =>
             IF r.value = "RevealOnAction"
             THEN infOf(r.context.revealer, r.context) # 1
             ELSE /\ infOf(context.target, r.context) = 0
                  /\ infOf(context.target, context) >= 1
                  /\ r.path[Len(r.path) - 1] = "EndOfTurn"
                  /\ \E i \in 1..Len(r.acts) : r.acts[i] = "revealInfluence"

\* C25 witness: a player with one card was challenged and lost the card,
\* and with it the game, without a REVEAL event
AutoRevealOfSoleCard_witness ==
  /\ last.outcome = "accepted"
  /\ last.type = "CHALLENGE"
  /\ last.path = <<"Challenge", "ExecRevealOnChallenge", "EndOfTurn",
                   "GameOver">>
  /\ infOf(last.turn.actor, last.turn.start) = 1
  /\ infOf(last.turn.actor, context) = 0

\* ------------------------------------------------------- Rand on its own
\* Rand.random and Rand.shuffle applied, through liftRand and liftDeck, to
\* the seed and the deck of a context, for any list of roles as the deck.
ShuffleRoles == {"duke", "assassin", "captain", "contessa"}

Lists == UNION {[1..n -> ShuffleRoles] : n \in 0..MaxLen}

\* the call of Rand just made: what it was, the list and the seed it was
\* given, and for Rand.random(0, n - 1) the n and the number returned
Call(type, list, seed, n, index) ==
  [type |-> type, list |-> list, seed |-> seed, n |-> n, index |-> index]

ShuffleInit ==
  \E list \in Lists, seed \in {Seed123, Seed7} :
    /\ value = "StartOfTurn"
    /\ context = [def |-> DefaultRoles, seed |-> seed, deck |-> list,
                  whoseTurn |-> 0, players |-> <<>>,
                  currentAction |-> NullStr, target |-> NullIdx,
                  blocker |-> NullIdx, challenger |-> NullIdx,
                  revealer |-> NullIdx, revealedRole |-> NullStr]
    /\ last = Call("", <<>>, seed, 0, 0)
    /\ turn = NoTurn(0)
    /\ initial = context

\* liftRand(Rand.random(0, n - 1)): the number, and the seed moved on
RandRandom ==
  /\ turn.n < MaxDraws
  /\ \E n \in 1..(MaxLen + 1) :
       /\ last' = Call("random", context.deck, context.seed, n,
                       random(context.seed, 0, n - 1))
       /\ context' = [context EXCEPT !.seed = nextSeed(@)]
  /\ turn' = NoTurn(turn.n + 1)
  /\ UNCHANGED <<value, initial>>

\* Game.shuffleDeck_s
RandShuffle ==
  /\ turn.n < MaxDraws
  /\ last' = Call("shuffle", context.deck, context.seed, Len(context.deck), 0)
  /\ context' = shuffleDeck_s(context)
  /\ turn' = NoTurn(turn.n + 1)
  /\ UNCHANGED <<value, initial>>

ShuffleNext == RandRandom \/ RandShuffle

ShuffleSpec == ShuffleInit /\ [][ShuffleNext]_vars

\* how often x occurs in the list
occurrences(x, list) == Cardinality({i \in 1..Len(list) : list[i] = x})

\* C26: Rand.shuffle returns a permutation of the list it is given, for
\* every seed: the result has the length of the input and every element as
\* often as the input has it; and the number Rand.random(0, n - 1) returns
\* lies in 0..(n - 1), for every n and every seed a shuffle can draw with.
ShuffleIsPermutation ==
  /\ last.type = "shuffle" =>
       /\ Len(context.deck) = Len(last.list)
       /\ \A x \in ShuffleRoles :
            occurrences(x, context.deck) = occurrences(x, last.list)
  /\ last.type = "random" => last.index \in 0..(last.n - 1)
  /\ \A n \in 1..(MaxLen + 1) : random(context.seed, 0, n - 1) \in 0..(n - 1)

\* C26 witness: a list of MaxLen different roles was shuffled into another
\* order
ShuffleIsPermutation_witness ==
  /\ last.type = "shuffle"
  /\ Len(last.list) = MaxLen
  /\ \A i, j \in 1..Len(last.list) : last.list[i] = last.list[j] => i = j
  /\ context.deck # last.list

\* C27: whenever a call has entered FinishAction, the active player's cash
\* has been reduced by the cost of the action exactly once in that turn:
\* payActionCost has run once for an action with a cost, and the cash is
\* the cash at the ACTION less the cost plus the gain; for every action
\* that can be started, coup (cost 7) included.
AppliedActionWasPaid ==
  (last.outcome = "accepted" /\ InPath("FinishAction")) =>
    /\ getCost(last.turn.action) > 0 => last.turn.paid = 1
    /\ viewPlayer(last.turn.actor, context).cash
         = last.turn.cash - getCost(last.turn.action) + gain(last.turn.action)

\* the actions of the rulebook that need a role
ClaimsRole == {"tax", "assassinate", "steal", "exchange", "interrogate"}

\* C28: in WaitForResponse (no blocker) a CHALLENGE is accepted exactly
\* from a valid player other than the active one when the current action
\* requires a role, so never for foreign-aid, income or coup; in Block it is
\* accepted exactly from a valid player other than the blocker, the active
\* player and third parties included; every other CHALLENGE is rejected.
ChallengeAcceptedFromRightPlayers ==
  /\ value = "WaitForResponse" =>
       /\ context.blocker = NullIdx
       /\ context.currentAction \notin {"income", "coup"}
       /\ \A p \in PlayerInputs :
            \A r \in {transition(value, context,
                                 Event("CHALLENGE", p, NullStr, NullIdx,
                                       NullStr))} :
              IF /\ p >= 0 /\ p < Len(context.players)
                 /\ p # context.whoseTurn
                 /\ context.currentAction \in ClaimsRole
              THEN r.outcome = "accepted" /\ Through("Challenge", r)
              ELSE r.outcome = "rejected"
  /\ value = "Block" =>
       /\ context.blocker # NullIdx
       /\ \A p \in PlayerInputs :
            \A r \in {transition(value, context,
                                 Event("CHALLENGE", p, NullStr, NullIdx,
                                       NullStr))} :
              IF p >= 0 /\ p < Len(context.players) /\ p # context.blocker
              THEN r.outcome = "accepted" /\ Through("Challenge", r)
              ELSE r.outcome = "rejected"

\* C28 witness: a block was challenged by a player that is neither the
\* blocker nor the active player
ChallengeAcceptedFromRightPlayers_witness ==
  /\ last.outcome = "accepted"
  /\ last.type = "CHALLENGE"
  /\ last.turn.blocker # NullIdx
  /\ last.turn.challenger \notin {last.turn.actor, last.turn.blocker}

\* the roles the rulebook lets block an action
BlockedBy(action) ==
  IF action = "foreign-aid" THEN {"duke"}
  ELSE IF action = "assassinate" THEN {"contessa"}
  ELSE IF action = "steal" THEN {"captain", "ambassador", "inquisitor"}
  ELSE {}

\* C29: in WaitForResponse and in WaitForBlock a BLOCK is accepted exactly
\* from a valid player other than the active one with a role that blocks the
\* current action; any other BLOCK (duke against assassinate, any block of
\* tax) is rejected and leaves the state name and the context as they were.
BlockAcceptedWithBlockingRole ==
  value \in {"WaitForResponse", "WaitForBlock"} =>
    \A p \in PlayerInputs, role \in RoleInputs :
      \A r \in {transition(value, context,
                           Event("BLOCK", p, NullStr, NullIdx, role))} :
        IF /\ p >= 0 /\ p < Len(context.players)
           /\ p # context.whoseTurn
           /\ role \in BlockedBy(context.currentAction)
        THEN r.outcome = "accepted" /\ r.value = "Block"
        ELSE r.outcome = "rejected" /\ r.value = value /\ r.context = context

\* C29 witness: an opponent's BLOCK of a steal or of an assassination was
\* accepted in WaitForResponse
BlockAcceptedWithBlockingRole_witness ==
  /\ value = "Block"
  /\ last.outcome = "accepted"
  /\ last.type = "BLOCK"
  /\ last.turn.action \in {"steal", "assassinate"}
  /\ last.turn.blocker # last.turn.actor
  /\ last.turn.path = <<"WaitForResponse", "Block">>

\* the REVEAL events a caller can send
RevealEvents ==
  {Event("REVEAL", p, NullStr, NullIdx, role) :
     p \in PlayerInputs, role \in RoleInputs}

\* the condition the rulebook puts on a REVEAL event
legalReveal(e) ==
  /\ e.player >= 0 /\ e.player < Len(context.players)
  /\ e.player = context.revealer
  /\ e.role \in {"duke", "assassin", "captain", "ambassador", "contessa"}
  /\ \E j \in 1..2 :
       viewPlayer(e.player, context).influence[j] = Card(e.role, FALSE)

\* C30 as stated: a REVEAL is accepted in Challenge, ChallengeIncorrect and
\* RevealOnAction only from the revealer with a valid role it holds
\* unrevealed, and after an accepted REVEAL exactly one slot of the revealer
\* with that role has changed from unrevealed to revealed and no other
\* player's influence has changed.
RevealChangesOneSlot ==
  value \in RevealStates =>
    \A e \in RevealEvents :
      \A r \in {transition(value, context, e)} :
        r.outcome = "accepted" =>
          /\ legalReveal(e)
          /\ lostRole(e.player, e.role, context, r.context)
          /\ othersInfluenceSame(e.player, context, r.context)

\* C30 amended: a REVEAL is accepted in Challenge, ChallengeIncorrect and
\* RevealOnAction exactly from the revealer with a valid role it holds
\* unrevealed, and is rejected otherwise.  revealInfluence then turns exactly
\* one slot of the revealer with that role from unrevealed to revealed and
\* changes no other influence.  In the state the call returns the card is
\* still revealed unless it proved the challenged claim, in which case it
\* has been replaced by an unrevealed card; another influence has changed
\* only if a player with one card left became the revealer in the same call.
RevealAcceptedFromRevealer ==
  value \in RevealStates =>
    \A e \in RevealEvents :
      \A r \in {transition(value, context, e)} :
        IF legalReveal(e)
        THEN /\ r.outcome = "accepted"
             /\ \A c1 \in {revealInfluence(context, e)} :
                  /\ lostRole(e.player, e.role, context, c1)
                  /\ othersInfluenceSame(e.player, context, c1)
                  /\ c1.revealedRole = e.role
             /\ IF value = "Challenge" /\ provesClaim(e.role)
                THEN /\ Through("ChallengeIncorrect", r)
                     /\ infOf(e.player, r.context) = infOf(e.player, context)
                ELSE revealedIn(e.player, e.role, context, r.context)
             /\ count("revealInfluence", r.acts) = 1 =>
                  /\ othersInfluenceSame(e.player, context, r.context)
                  /\ ~(value = "Challenge" /\ provesClaim(e.role)) =>
                       lostRole(e.player, e.role, context, r.context)
        ELSE r.outcome = "rejected" /\ r.context = context

\* C30 witness: the revealer proved its duke by a REVEAL and holds two
\* unrevealed cards as before, while the machine waits for the challenger
RevealAcceptedFromRevealer_witness ==
  /\ value = "ChallengeIncorrect"
  /\ last.outcome = "accepted"
  /\ last.type = "REVEAL"
  /\ last.turn.action = "tax"
  /\ infOf(last.turn.actor, last.turn.start) = 2
  /\ infOf(last.turn.actor, context) = 2
  /\ revealedCards(context) = revealedCards(last.turn.start)

ChallengeRolesAssigned ==
  /\ value \in {"WaitForResponse", "Block"} =>
       \A p \in PlayerInputs :
         \A e \in {Event("CHALLENGE", p, NullStr, NullIdx, NullStr)} :
           \A r \in {transition(value, context, e)} :
             r.outcome = "accepted" =>
               /\ r.path[1] = "Challenge"
               /\ \A c1 \in {updateContext(entry("Challenge"), context, e)} :
                    /\ c1.challenger = p
                    /\ c1.revealer = claimant
                    /\ c1.revealedRole = NullStr
                    /\ c1.challenger # c1.revealer
                    /\ r.value = "Challenge" => r.context = c1
  /\ value = "Challenge" =>
       /\ context.challenger = turn.challenger
       /\ context.challenger # context.revealer
       /\ context.revealer = claimant
  /\ value = "Block" =>
       /\ context.blocker = turn.blocker
       /\ context.blocker # context.whoseTurn

\* C32 witness: the active player has challenged a block and the blocker
\* is to reveal
ChallengeRolesAssigned_witness ==
  /\ value = "Challenge"
  /\ last.outcome = "accepted"
  /\ last.type = "CHALLENGE"
  /\ context.blocker # NullIdx
  /\ context.revealer = context.blocker
  /\ context.challenger = context.whoseTurn

\* C33: whenever the machine rests in Challenge, ChallengeIncorrect or
\* RevealOnAction the revealer has an unrevealed influence (two of them),
\* so that a REVEAL exists that is accepted.
RevealerCanReveal ==
  value \in RevealStates =>
    /\ infOf(context.revealer, context) = 2
    /\ \E e \in RevealEvents :
         transition(value, context, e).outcome = "accepted"

\* every event a caller can send
AllEvents ==
  ActionEvents \cup RevealEvents
  \cup {Event("BLOCK", p, NullStr, NullIdx, role) :
          p \in PlayerInputs, role \in RoleInputs}
  \cup {Event(type, p, NullStr, NullIdx, NullStr) :
          type \in {"CHALLENGE", "ALLOW"}, p \in PlayerInputs}

\* C34: in every reachable rest state other than GameOver there is an
\* event that is accepted and changes the state name or the context.
SomeEventMovesOn ==
  (value \in RestStates /\ value # "GameOver") =>
    \E e \in AllEvents :
      \E r \in {transition(value, context, e)} :
        /\ r.outcome = "accepted"
        /\ (r.value # value \/ r.context # context)

\* ------------------------------------------------------ players that go on
\* the events the machine accepts in the state it rests in
LegalEvents ==
  {e \in AllEvents : /\ e.type = "ACTION" => turn.n < MaxTurns
                     /\ transition(value, context, e).outcome = "accepted"}

\* the players keep sending an event that is accepted whenever there is one
LegalStep == \E e \in LegalEvents : Send(e)

FairSpec == Init /\ [][Next]_vars /\ WF_vars(LegalStep)

\* a turn in progress is eventually over
EveryTurnEnds ==
  (value \notin {"StartOfTurn", "GameOver"})
    ~> (value \in {"StartOfTurn", "GameOver"})

\* some sequence of accepted events leads from (state, c) to the end of the
\* turn; a turn is a finite walk through the machine, so the search ends
RECURSIVE canEnd(_, _)
canEnd(state, c) ==
  \/ state \in {"StartOfTurn", "GameOver"}
  \/ \E e \in AllEvents : \E r \in {transition(state, c, e)} :
        r.outcome = "accepted" /\ canEnd(r.value, r.context)

\* C35: when the players keep sending a legal event whenever one exists, every
\* accepted ACTION is eventually followed by StartOfTurn or GameOver.  The
\* least this needs is that from every state of a turn in progress some
\* sequence of legal events ends the turn: where none does, LegalStep is
\* never enabled again and EveryTurnEnds fails in every behaviour of FairSpec
\* that gets there.
TurnCanEnd == canEnd(value, context)

\* ------------------------------------------------------------ dead players
\* idx names a player of c who has no unrevealed card left
deadIn(idx, c) == idx \in 0..(Len(c.players) - 1) /\ infOf(idx, c) = 0

\* C36: no event of a dead player (one with no unrevealed card) is accepted,
\* and no ACTION that targets a dead player is accepted.
DeadPlayersRejected ==
  \A e \in AllEvents : \A r \in {transition(value, context, e)} :
    r.outcome = "accepted" =>
      /\ ~deadIn(e.player, context)
      /\ e.type = "ACTION" => ~deadIn(e.target, context)

\* ------------------------------------------------------ actions that throw
\* C37: no call of transition fails in an action: the call that led here did
\* not, and no event sent from here makes revealInfluence, replaceInfluence
\* or the redeal throw 'Player does not have role'.
NoInvariantViolation ==
  /\ last.outcome # "failed"
  /\ \A e \in AllEvents : transition(value, context, e).outcome # "failed"

\* the proof of a challenged claim was replaced for a player who held two
\* cards of the proven role, one of them revealed before the turn
NoInvariantViolation_witness ==
  /\ last.outcome = "accepted"
  /\ Did("revealInfluence") /\ Did("replaceInfluence")
  /\ \E i \in 1..Len(context.players) :
       /\ last.turn.blocker = i - 1
       /\ last.turn.start.players[i].influence =
            <<[role |-> "duke", revealed |-> TRUE],
              [role |-> "duke", revealed |-> FALSE]>>

\* ------------------------------------------------------ the deck, the seed
\* C38: a call of transition changes the deck or the seed only when it is
\* accepted and passes through ChallengeIncorrect (replaceInfluence); the
\* length of the deck never changes.
DeckChangesOnlyOnRedeal ==
  [][/\ Len(context'.deck) = Len(context.deck)
     /\ ~(/\ last'.outcome = "accepted"
          /\ \E i \in 1..Len(last'.path) :
               last'.path[i] = "ChallengeIncorrect")
          => /\ context'.deck = context.deck
             /\ context'.seed = context.seed]_vars

\* a proven role was redealt: the seed has moved on and the deck is as long
\* as it was when the turn began
DeckChangesOnlyOnRedeal_witness ==
  /\ last.outcome = "accepted"
  /\ InPath("ChallengeIncorrect")
  /\ context.seed # last.turn.start.seed
  /\ context.deck # last.turn.start.deck
  /\ Len(context.deck) = Len(last.turn.start.deck)

\* ------------------------------------------------------------------- cash
\* C39: a call of transition leaves the cash of every player other than
\* players[whoseTurn] (whoseTurn as it was before the call) unchanged.
OnlyActivePlayersCashChanges ==
  [][othersCashSame(context.whoseTurn, context, context')]_vars

\* an assassination was paid for and carried out: the actor has paid its
\* cost and nobody else's cash has moved
OnlyActivePlayersCashChanges_witness ==
  /\ last.outcome = "accepted"
  /\ last.turn.action = "assassinate"
  /\ Did("applyAction")
  /\ last.turn.paid = 1
  /\ context.players[last.turn.actor + 1].cash
       = last.turn.start.players[last.turn.actor + 1].cash
           - getCost("assassinate")
  /\ othersCashSame(last.turn.actor, last.turn.start, context)

\* ------------------------------------------------------- influence is lost
\* the number of revealed cards of the role that player idx holds in c
revealedOf(idx, role, c) ==
  Cardinality({k \in 1..Len(viewPlayer(idx, c).influence) :
                 viewPlayer(idx, c).influence[k] =
                   [role |-> role, revealed |-> TRUE]})

\* C40: from one rest state to the next no player's number of unrevealed
\* influences grows (so a player at zero stays at zero) and no player has
\* fewer revealed cards of any role than before; the unrevealed influences
\* lost in a call are one for each revealInfluence it ran, less one for each
\* proof that replaceInfluence turned down again and redealt.
InfluenceOnlyLost ==
  [][/\ \A i \in 0..(Len(context.players) - 1) :
          /\ infOf(i, context') <= infOf(i, context)
          /\ \A k \in 1..Len(context.def) :
               revealedOf(i, context.def[k], context')
                 >= revealedOf(i, context.def[k], context)
     /\ unrevealedCards(context) - unrevealedCards(context') =
          IF last'.outcome = "accepted"
          THEN count("revealInfluence", last'.acts)
               - count("replaceInfluence", last'.acts)
          ELSE 0]_vars

\* a challenge failed: the proof was revealed and redealt, the challenger's
\* only card was revealed, and the challenger now has none
InfluenceOnlyLost_witness ==
  /\ last.outcome = "accepted"
  /\ count("revealInfluence", last.acts) = 2
  /\ count("replaceInfluence", last.acts) = 1
  /\ last.turn.challenger # NullIdx
  /\ infOf(last.turn.challenger, last.turn.start) = 1
  /\ infOf(last.turn.challenger, context) = 0

\* C40 as stated: besides the counts, every card that lies revealed before a
\* call lies revealed, in its slot, after it.
LostCardStaysRevealed ==
  [][/\ \A i \in 1..Len(context.players) :
          /\ countInf(context'.players[i]) <= countInf(context.players[i])
          /\ \A k \in 1..Len(context.players[i].influence) :
               context.players[i].influence[k].revealed =>
                 context'.players[i].influence[k] =
                   context.players[i].influence[k]
     /\ unrevealedCards(context) - unrevealedCards(context') <=
          IF last'.outcome = "accepted"
          THEN count("revealInfluence", last'.acts)
          ELSE 0]_vars

====
